---- MODULE Spec2Model ----
(***************************************************************************)
(* Model of Navvi's analysis engine (AnalysisEngine.analyzeRepository and  *)
(* the grouping / relationship / metrics code it runs).                    *)
(*                                                                         *)
(* JavaScript strings are sequences of one-character strings, so that      *)
(* endsWith / includes / split / replace are computed on characters as the *)
(* code computes them.                                                     *)
(***************************************************************************)
EXTENDS Integers, Sequences, FiniteSets, TLC

(***************************************************************************)
(* Bounds of the model.                                                    *)
(***************************************************************************)
MaxFiles == 2
MaxCommits == 2
MaxGraphFiles == 3
MaxStatements == 2
MaxMetricFiles == 2
MaxComponents == 3
MaxInsightFiles == 6

(***************************************************************************)
(* String primitives (methods of String.prototype).                        *)
(***************************************************************************)
StartsWith(s, p) ==
    /\ Len(p) <= Len(s)
    /\ SubSeq(s, 1, Len(p)) = p

EndsWith(s, p) ==
    /\ Len(p) <= Len(s)
    /\ SubSeq(s, Len(s) - Len(p) + 1, Len(s)) = p

\* the 1-based positions at which sub occurs in s
Occurrences(s, sub) ==
    { k \in 1..(Len(s) - Len(sub) + 1) : SubSeq(s, k, k + Len(sub) - 1) = sub }

Includes(s, sub) == Len(sub) = 0 \/ Occurrences(s, sub) # {}

SetMin(S) == CHOOSE x \in S : \A y \in S : x <= y

SetMax(S) == CHOOSE x \in S : \A y \in S : x >= y

\* s.replace(pat, rep) with a string pattern: the first occurrence only
ReplaceFirst(s, pat, rep) ==
    IF Len(pat) = 0 THEN rep \o s
    ELSE IF Occurrences(s, pat) = {} THEN s
    ELSE LET k == SetMin(Occurrences(s, pat))
         IN  SubSeq(s, 1, k - 1) \o rep \o SubSeq(s, k + Len(pat), Len(s))

\* s.replace(/\\/g, '/')
SlashNormalize(s) == [k \in 1..Len(s) |-> IF s[k] = "\\" THEN "/" ELSE s[k]]

SlashPositions(s) == { k \in 1..Len(s) : s[k] = "/" }

\* s.split('/').pop()
LastSegment(s) ==
    IF SlashPositions(s) = {} THEN s
    ELSE SubSeq(s, SetMax(SlashPositions(s)) + 1, Len(s))

\* s.split('/')[0]
FirstSegment(s) ==
    IF SlashPositions(s) = {} THEN s
    ELSE SubSeq(s, 1, SetMin(SlashPositions(s)) - 1)

\* path.dirname (posix) of a path without a trailing or a doubled slash
Dirname(s) ==
    IF SlashPositions(s) = {} THEN <<".">>
    ELSE IF SetMax(SlashPositions(s)) = 1 THEN <<"/">>
    ELSE SubSeq(s, 1, SetMax(SlashPositions(s)) - 1)

(***************************************************************************)
(* Generic sequence helpers (Array.prototype methods).                     *)
(***************************************************************************)
Range(s) == { s[k] : k \in DOMAIN s }

RECURSIVE Concat(_)
\* flattening of the arrays pushed by nested forEach loops
Concat(ss) == IF ss = <<>> THEN <<>> ELSE Head(ss) \o Concat(Tail(ss))

RECURSIVE SumSeq(_)
\* xs.reduce((sum, x) => sum + x, 0)
SumSeq(xs) == IF xs = <<>> THEN 0 ELSE Head(xs) + SumSeq(Tail(xs))

RECURSIVE SortedSeqOfSet(_)
SortedSeqOfSet(S) ==
    IF S = {} THEN <<>> ELSE <<SetMin(S)>> \o SortedSeqOfSet(S \ {SetMin(S)})

\* the sub-sequence of s at the (ascending) positions in I
AtPositions(s, I) == [k \in 1..Cardinality(I) |-> s[SortedSeqOfSet(I)[k]]]

\* the value JavaScript prints as undefined; not a character sequence
Undefined == <<"undefined">>

(***************************************************************************)
(* Paths, module specifiers and identifiers that occur in the modelled     *)
(* repositories.                                                           *)
(***************************************************************************)
PathM == <<"m", ".", "t", "s">>

PathAX == <<"a", "/", "x", ".", "t", "s">>

PathAY == <<"a", "/", "y", ".", "t", "s">>

PathABX == <<"a", "/", "b", "/", "x", ".", "t", "s">>

RepoPaths == {PathM, PathAX, PathAY, PathABX}

ModRelX == <<".", "/", "x">>

ModXTs == <<"x", ".", "t", "s">>

ModY == <<"y">>

ModReact == <<"r", "e", "a", "c", "t">>


(***************************************************************************)
(* calculateFunctionComplexity on the syntax trees of the parser.  A node  *)
(* has its type, its operator (logical expressions) and its properties     *)
(* that hold nodes; a property holds one node or an array of nodes.        *)
(***************************************************************************)
Prop(key, array, nodes) == [key |-> key, array |-> array, nodes |-> nodes]

Node(type, operator, props) == [type |-> type, operator |-> operator, props |-> props]

\* the cases of the switch that increment complexity
DecisionTypes ==
    {"IfStatement", "ForStatement", "ForInStatement", "ForOfStatement",
     "WhileStatement", "DoWhileStatement", "SwitchCase", "CatchClause",
     "ConditionalExpression"}

\* the types the walk does not enter from a property holding one node
NestedTypes ==
    {"FunctionDeclaration", "FunctionExpression", "ArrowFunctionExpression",
     "ClassDeclaration"}

RECURSIVE Walk(_)
\* the increments of complexity made by walk(n) and the calls it makes
Walk(n) ==
    LET isComplexityNode ==
            \/ n.type \in DecisionTypes
            \/ n.type = "LogicalExpression" /\ n.operator \in {"&&", "||"}
        Child(prop) ==
            IF prop.array
            THEN SumSeq([k \in DOMAIN prop.nodes |-> Walk(prop.nodes[k])])
            ELSE IF prop.nodes[1].type \in NestedTypes THEN 0
            ELSE Walk(prop.nodes[1])
    IN  (IF isComplexityNode THEN 1 ELSE 0)
        + (IF ~isComplexityNode \/ n.type = "LogicalExpression"
           THEN SumSeq([k \in DOMAIN n.props |-> Child(n.props[k])])
           ELSE 0)

\* node.body of a function or method node holds one node
CalculateFunctionComplexity(node) ==
    1 + SumSeq([k \in DOMAIN node.props |->
                   IF node.props[k].key = "body" THEN Walk(node.props[k].nodes[1])
                   ELSE 0])

(***************************************************************************)
(* File contents.  A content is what reading and parsing the file gives:   *)
(* kind "unreadable" (readFile rejects), "syntaxError" (parser.parse       *)
(* throws), "traverseError" (the traversal in analyzeAST throws), or       *)
(* "source" with the facts the traversal extracts: the line of the         *)
(* program's end, the complexity of each recorded function, for each class *)
(* its superclass identifier and the complexity of each method, and the    *)
(* module specifier of each import declaration.                            *)
(***************************************************************************)
Source(lines, functions, classes, imports) ==
    [kind |-> "source", lines |-> lines, functions |-> functions,
     classes |-> classes, imports |-> imports]

Failing(kind) ==
    [kind |-> kind, lines |-> 0, functions |-> <<>>, classes |-> <<>>,
     imports |-> <<>>]

ContentPlain == Source(10, <<2>>, <<>>, <<ModReact>>)

ContentImporter == Source(40, <<12>>, <<>>, <<ModXTs>>)

ContentClass ==
    Source(25, <<>>, <<[extends |-> <<"x">>, methods |-> <<1, 3>>]>>, <<ModRelX>>)

\* a file that declares no function and no class
ContentBare == Source(3, <<>>, <<>>, <<>>)

ScanContents ==
    {ContentPlain, ContentImporter, ContentClass, ContentBare,
     Failing("unreadable"), Failing("syntaxError"), Failing("traverseError")}

(***************************************************************************)
(* Numbers.  Counts are integers.  A JavaScript number that need not be an *)
(* integer is a fraction [num, den]; 0/0 is NaN and 1/0 is +Infinity.      *)
(* Logarithms are computed in units of 1/10000 and the maintainability     *)
(* values in units of 1/1000.                                              *)
(***************************************************************************)
Frac(n, d) == [num |-> n, den |-> d]

IsNaN(q) == q.den = 0 /\ q.num = 0

\* q < n, q > n and q = n for an integer n; false on NaN, as in JavaScript
FracLess(q, n) == q.den > 0 /\ q.num < n * q.den

FracGreater(q, n) == q.den > 0 /\ q.num > n * q.den

FracIs(q, n) == q.den > 0 /\ q.num = n * q.den

Min2(a, b) == IF a <= b THEN a ELSE b

Max2(a, b) == IF a >= b THEN a ELSE b

RECURSIVE FloorLog2(_)
FloorLog2(n) == IF n < 2 THEN 0 ELSE 1 + FloorLog2(n \div 2)

RECURSIVE Pow2(_)
Pow2(k) == IF k = 0 THEN 1 ELSE 2 * Pow2(k - 1)

\* Math.log(n) * 10000 for an integer n >= 1:
\* ln n = k ln 2 + 2 atanh((n - 2^k) / (n + 2^k))
LnE4(n) ==
    LET k == FloorLog2(n)
        p == Pow2(k)
        z == ((n - p) * 10000) \div (n + p)
        z2 == (z * z) \div 10000
        t3 == (z2 * z) \div 10000
        t5 == (t3 * z2) \div 10000
        t7 == (t5 * z2) \div 10000
    IN  k * 6931 + 2 * (z + (t3 \div 3) + (t5 \div 5) + (t7 \div 7))

(***************************************************************************)
(* calculateFileComplexity, analyzeAST, analyzeFile.                       *)
(***************************************************************************)
CalculateFileComplexity(functions, classes) ==
    LET fsum == SumSeq([k \in DOMAIN functions |-> functions[k].complexity])
        csum == SumSeq([k \in DOMAIN classes |-> classes[k].complexity])
        cyclomatic == fsum + csum
        \* in units of 1/1000; Math.log(0) is -Infinity and the result +Infinity
        maintainability ==
            IF cyclomatic = 0 THEN Frac(1, 0)
            ELSE Frac(Max2(0, 171000 - ((52 * LnE4(cyclomatic)) \div 100)
                                     - 230 * cyclomatic),
                      1000)
    IN  [cyclomatic |-> cyclomatic, cognitive |-> fsum,
         halstead |-> cyclomatic * 2, maintainability |-> maintainability]

AnalyzeAST(filePath, content) ==
    LET functions ==
            [k \in DOMAIN content.functions |->
                [complexity |-> content.functions[k]]]
        classes ==
            [k \in DOMAIN content.classes |->
                [extends |-> content.classes[k].extends,
                 complexity |-> SumSeq(content.classes[k].methods)]]
        imports ==
            [k \in DOMAIN content.imports |-> [module |-> content.imports[k]]]
    IN  [path |-> filePath,
         lines |-> content.lines,
         functions |-> functions,
         classes |-> classes,
         imports |-> imports,
         dependencies |-> content.imports,
         complexity |-> CalculateFileComplexity(functions, classes)]

\* What `await this.analyzeFile(file)` gives the per-file loop.  A read
\* failure is caught in analyzeFile, which returns null.  analyzeJavaScriptFile
\* and analyzeTypeScriptFile are async and returned without await, so a parse
\* or traversal failure is a rejected promise that passes both catch blocks
\* of analyzeFile and rejects the await of the caller.
AnalyzeFile(file) ==
    IF file.content.kind = "unreadable" THEN [ret |-> "null"]
    ELSE IF file.content.kind \in {"syntaxError", "traverseError"}
    THEN [ret |-> "throws"]
    ELSE [ret |-> "value", value |-> AnalyzeAST(file.path, file.content)]

(***************************************************************************)
(* Component grouping: identifyComponents, determineComponentType.         *)
(***************************************************************************)
\* DetermineComponentType with the page rule tried before the api rule
DetermineComponentTypePageFirst(dirName, files) ==
    LET Some(markers) ==
            \E k \in DOMAIN files : \E m \in markers : Includes(files[k].path, m)
        hasApiFiles == Some({<<"a", "p", "i">>, <<"r", "o", "u", "t", "e">>})
        hasPageFiles ==
            Some({<<"p", "a", "g", "e">>,
                  <<"c", "o", "m", "p", "o", "n", "e", "n", "t">>})
        hasServiceFiles ==
            Some({<<"s", "e", "r", "v", "i", "c", "e">>, <<"u", "t", "i", "l">>})
    IN  IF hasPageFiles THEN "page"
        ELSE IF hasApiFiles THEN "api"
        ELSE IF hasServiceFiles THEN "service"
        ELSE "component"

DetermineComponentType(dirName, files) ==
    LET Some(markers) ==
            \E k \in DOMAIN files : \E m \in markers : Includes(files[k].path, m)
        hasApiFiles == Some({<<"a", "p", "i">>, <<"r", "o", "u", "t", "e">>})
        hasPageFiles ==
            Some({<<"p", "a", "g", "e">>,
                  <<"c", "o", "m", "p", "o", "n", "e", "n", "t">>})
        hasServiceFiles ==
            Some({<<"s", "e", "r", "v", "i", "c", "e">>, <<"u", "t", "i", "l">>})
    IN  IF hasApiFiles THEN "api"
        ELSE IF hasPageFiles THEN "page"
        ELSE IF hasServiceFiles THEN "service"
        ELSE "component"

\* the key under which identifyComponents groups a file
ComponentDir(relPath) == Dirname(relPath)

\* the keys of a Map filled by one set per element of keys, in insertion order
MapKeys(keys) ==
    AtPositions(keys, { k \in DOMAIN keys : \A j \in 1..(k - 1) : keys[j] # keys[k] })

\* GroupOf with a file put in the group of every directory its path starts with
GroupOfByPrefix(paths, componentDir) ==
    AtPositions(paths, { k \in DOMAIN paths : StartsWith(paths[k], componentDir) })

\* fileGroups.get(componentDir) once every file has been pushed to its group
GroupOf(paths, componentDir) ==
    AtPositions(paths, { k \in DOMAIN paths : ComponentDir(paths[k]) = componentDir })

IdentifyComponents(files) ==
    LET paths == [k \in DOMAIN files |-> files[k].path]
        groupDirs == MapKeys([k \in DOMAIN files |-> ComponentDir(files[k].path)])
        Group(componentDir) ==
            LET filePaths == GroupOf(paths, componentDir)
                componentFiles ==
                    AtPositions(files,
                        { k \in DOMAIN files : files[k].path \in Range(filePaths) })
                componentName ==
                    IF componentDir = <<".">> THEN <<"r", "o", "o", "t">>
                    ELSE componentDir
            IN  [name |-> componentName,
                 type |-> DetermineComponentType(componentName, componentFiles),
                 files |-> filePaths,
                 complexity |->
                    SumSeq([k \in DOMAIN componentFiles |->
                               componentFiles[k].complexity.cyclomatic])]
    IN  [k \in DOMAIN groupDirs |-> Group(groupDirs[k])]

(***************************************************************************)
(* buildRelationships.                                                     *)
(***************************************************************************)
\* fileToComponent.get(p): every set overwrites, so the last Component
\* listing p gives the name
FileToComponent(components, p) ==
    LET owners == { k \in DOMAIN components : p \in Range(components[k].files) }
    IN  IF owners = {} THEN Undefined ELSE components[SetMax(owners)].name

IsInternalImport(files, module) ==
    \/ StartsWith(module, <<".">>)
    \/ StartsWith(module, <<"/">>)
    \/ \E k \in DOMAIN files :
          EndsWith(files[k].path, module) \/ Includes(files[k].path, module)

\* the predicate of files.find(...) for an import specifier or a superclass
MatchesReference(path, ref) ==
    \/ path = ref
    \/ EndsWith(path, ref)
    \/ Includes(path, ref)
    \/ LastSegment(path) = LastSegment(ref)

\* files.find(f => ...).path, then fileToComponent.get
ResolveComponent(files, components, ref) ==
    LET hits == { k \in DOMAIN files : MatchesReference(files[k].path, ref) }
    IN  IF hits = {} THEN Undefined
        ELSE FileToComponent(components, files[SetMin(hits)].path)

\* EmitsEdge without the comparison of the two Component names
EmitsEdgeToSelf(fromComponent, toComponent) ==
    /\ fromComponent # Undefined
    /\ toComponent # Undefined

\* the guard of relationships.push
EmitsEdge(fromComponent, toComponent) ==
    /\ fromComponent # Undefined
    /\ toComponent # Undefined
    /\ fromComponent # toComponent

Edge(fromComponent, toComponent, type) ==
    [from |-> fromComponent, to |-> toComponent, type |-> type]

ImportEdges(files, components) ==
    Concat([k \in DOMAIN files |->
        Concat([j \in DOMAIN files[k].imports |->
            LET module == files[k].imports[j].module
                fromComponent == FileToComponent(components, files[k].path)
                toComponent == ResolveComponent(files, components, module)
            IN  IF /\ IsInternalImport(files, module)
                   /\ EmitsEdge(fromComponent, toComponent)
                THEN <<Edge(fromComponent, toComponent, "imports")>>
                ELSE <<>>])])

ExtendsEdges(files, components) ==
    Concat([k \in DOMAIN files |->
        Concat([j \in DOMAIN files[k].classes |->
            LET extends == files[k].classes[j].extends
                fromComponent == FileToComponent(components, files[k].path)
                toComponent == ResolveComponent(files, components, extends)
            IN  IF extends # Undefined /\ EmitsEdge(fromComponent, toComponent)
                THEN <<Edge(fromComponent, toComponent, "extends")>>
                ELSE <<>>])])

BuildRelationships(files, components) ==
    ImportEdges(files, components) \o ExtendsEdges(files, components)

BuildArchitecture(files) ==
    LET components == IdentifyComponents(files)
    IN  [components |-> components,
         relationships |-> BuildRelationships(files, components)]

(***************************************************************************)
(* modules/dependencyGraph.ts: analyzeDependencyGraph, the grouping by     *)
(* top-level folder used by the modular engine.                            *)
(***************************************************************************)
TopLevel(path) == FirstSegment(SlashNormalize(path))

\* the guard of relationships.push in analyzeDependencyGraph; the empty
\* string is falsy
DepEmitsEdge(fromComponent, toComponent) ==
    /\ toComponent # Undefined
    /\ toComponent # <<>>
    /\ toComponent # fromComponent

AnalyzeDependencyGraph(files) ==
    LET paths == [k \in DOMAIN files |-> files[k].path]
        names == MapKeys([k \in DOMAIN files |-> TopLevel(files[k].path)])
        components ==
            [k \in DOMAIN names |->
                [name |-> names[k],
                 files |->
                    AtPositions(paths,
                        { i \in DOMAIN paths : TopLevel(paths[i]) = names[k] })]]
        DepComponent(dep) ==
            LET hits == { i \in DOMAIN files :
                            EndsWith(files[i].path, dep) \/ files[i].path = dep }
            IN  IF hits = {} THEN Undefined
                ELSE FileToComponent(components, files[SetMin(hits)].path)
    IN  [components |-> components,
         relationships |->
            Concat([k \in DOMAIN files |->
                Concat([j \in DOMAIN files[k].dependencies |->
                    LET fromComponent == FileToComponent(components, files[k].path)
                        toComponent == DepComponent(files[k].dependencies[j])
                    IN  IF DepEmitsEdge(fromComponent, toComponent)
                        THEN <<Edge(fromComponent, toComponent, "imports")>>
                        ELSE <<>>])])]

(***************************************************************************)
(* calculateMetrics and its helpers.                                       *)
(***************************************************************************)
ComplexityThreshold == 10

Cyclomatics(files) == [k \in DOMAIN files |-> files[k].complexity.cyclomatic]

TotalLines(files) == SumSeq([k \in DOMAIN files |-> files[k].lines])

\* in units of 1/1000.  With a total complexity of 0 or 1 the volume is 0,
\* Math.log(0) is -Infinity, the index +Infinity and the clamp gives 100.
CalculateMaintainabilityIndex(files) ==
    LET totalComplexity == SumSeq(Cyclomatics(files))
        totalLines == TotalLines(files)
        lnLines == LnE4(totalLines)
        \* ln(totalLines * log2(c)) = ln totalLines + ln(ln c) - ln(ln 2)
        lnVolume == lnLines + LnE4(LnE4(totalComplexity)) - LnE4(LnE4(2))
        maintainability ==
            171000 - ((52 * lnVolume) \div 100) - 230 * totalComplexity
                   - ((162 * lnLines) \div 100)
    IN  IF totalLines = 0 THEN Frac(100000, 1000)
        ELSE IF totalComplexity <= 1 THEN Frac(100000, 1000)
        ELSE Frac(Max2(0, Min2(100000, maintainability)), 1000)

\* CalculateTechnicalDebt without the comparison with the threshold
CalculateTechnicalDebtUnguarded(files) ==
    Frac(SumSeq([k \in DOMAIN files |->
                    files[k].complexity.cyclomatic - ComplexityThreshold]),
         2)

CalculateTechnicalDebt(files) ==
    Frac(SumSeq([k \in DOMAIN files |->
                    IF files[k].complexity.cyclomatic > ComplexityThreshold
                    THEN files[k].complexity.cyclomatic - ComplexityThreshold
                    ELSE 0]),
         2)

CalculateMetrics(files) ==
    [totalFiles |-> Len(files),
     totalLines |-> TotalLines(files),
     averageComplexity |->
        IF Len(files) > 0 THEN Frac(SumSeq(Cyclomatics(files)), Len(files))
        ELSE Frac(0, 1),
     maxComplexity |-> SetMax(Range(Cyclomatics(files)) \cup {0}),
     maintainabilityIndex |-> CalculateMaintainabilityIndex(files),
     technicalDebt |-> CalculateTechnicalDebt(files)]

(***************************************************************************)
(* generateInsights and its helpers.                                       *)
(***************************************************************************)
TopN == 5

\* SortDescending with the comparison turned round
SortAscending(xs, keys) ==
    LET Position(i) ==
            1 + Cardinality({ j \in DOMAIN xs : keys[j] < keys[i] })
              + Cardinality({ j \in 1..(i - 1) : keys[j] = keys[i] })
    IN  [p \in DOMAIN xs |-> xs[CHOOSE i \in DOMAIN xs : Position(i) = p]]

\* xs.sort((a, b) => key(b) - key(a)) with keys[k] the key of xs[k]; the sort
\* is stable
SortDescending(xs, keys) ==
    LET Position(i) ==
            1 + Cardinality({ j \in DOMAIN xs : keys[j] > keys[i] })
              + Cardinality({ j \in 1..(i - 1) : keys[j] = keys[i] })
    IN  [p \in DOMAIN xs |-> xs[CHOOSE i \in DOMAIN xs : Position(i) = p]]

\* xs.slice(0, 5)
Slice5(xs) == SubSeq(xs, 1, Min2(TopN, Len(xs)))

HighComplexityFiles(files) ==
    LET kept == AtPositions(files,
                    { k \in DOMAIN files :
                        files[k].complexity.cyclomatic > ComplexityThreshold })
        top == Slice5(SortDescending(kept, Cyclomatics(kept)))
    IN  [k \in DOMAIN top |->
            [path |-> top[k].path, complexity |-> top[k].complexity.cyclomatic]]

\* f.commitCount && f.commitCount > 1
Hotspots(files) ==
    LET kept == AtPositions(files, { k \in DOMAIN files : files[k].commitCount > 1 })
        top == Slice5(SortDescending(kept,
                    [k \in DOMAIN kept |-> kept[k].commitCount]))
    IN  [k \in DOMAIN top |->
            [path |-> top[k].path, commitCount |-> top[k].commitCount]]

\* DetermineArchitecturalStyle with a front end wherever a page is present
DetermineArchitecturalStyleAnyPage(architecture) ==
    LET componentTypes ==
            { architecture.components[k].type : k \in DOMAIN architecture.components }
        hasPages == "page" \in componentTypes
        hasApis == "api" \in componentTypes
        hasServices == "service" \in componentTypes
    IN  IF hasPages /\ hasApis /\ hasServices THEN "Full-Stack Application"
        ELSE IF hasPages THEN "Frontend Application"
        ELSE IF hasApis THEN "Backend API"
        ELSE "Component Library"

DetermineArchitecturalStyle(architecture) ==
    LET componentTypes ==
            { architecture.components[k].type : k \in DOMAIN architecture.components }
        hasPages == "page" \in componentTypes
        hasApis == "api" \in componentTypes
        hasServices == "service" \in componentTypes
    IN  IF hasPages /\ hasApis /\ hasServices THEN "Full-Stack Application"
        ELSE IF hasPages /\ ~hasApis THEN "Frontend Application"
        ELSE IF hasApis /\ ~hasPages THEN "Backend API"
        ELSE "Component Library"

\* AssessCodeQuality with a value at a threshold given the upper band
AssessCodeQualityInclusive(metrics) ==
    IF ~FracLess(metrics.maintainabilityIndex, 80) THEN "Excellent"
    ELSE IF ~FracLess(metrics.maintainabilityIndex, 60) THEN "Good"
    ELSE IF ~FracLess(metrics.maintainabilityIndex, 40) THEN "Fair"
    ELSE "Needs Improvement"

AssessCodeQuality(metrics) ==
    IF FracGreater(metrics.maintainabilityIndex, 80) THEN "Excellent"
    ELSE IF FracGreater(metrics.maintainabilityIndex, 60) THEN "Good"
    ELSE IF FracGreater(metrics.maintainabilityIndex, 40) THEN "Fair"
    ELSE "Needs Improvement"

\* the average is computed without a guard: 0/0 on an empty list
AnalyzeComplexityDistribution(files) ==
    LET avg == Frac(SumSeq(Cyclomatics(files)), Len(files))
    IN  IF FracLess(avg, 5) THEN "Low complexity, easy to maintain"
        ELSE IF FracLess(avg, 10) THEN "Moderate complexity, manageable"
        ELSE "High complexity, consider refactoring"

GenerateInsights(files, architecture, metrics) ==
    [architecturalStyle |-> DetermineArchitecturalStyle(architecture),
     codeQuality |-> AssessCodeQuality(metrics),
     complexityDistribution |-> AnalyzeComplexityDistribution(files),
     highComplexityFiles |-> HighComplexityFiles(files),
     hotspots |-> Hotspots(files)]

(***************************************************************************)
(* The orchestrator: AnalysisEngine.analyzeRepository as a state machine,  *)
(* one action per stretch of code between two awaits (or two stages).      *)
(***************************************************************************)
VARIABLES
    pc,                \* position in analyzeRepository
    events,            \* progress events passed to the progress callback
    dirs,              \* the directories that exist, among tempDir and analysisDir
    fileChangeCounts,  \* commit count of each repo-relative path
    files,             \* the scan result: absolute path and content of each file
    i,                 \* index of the per-file loop
    fileAnalyses,      \* the FileRecords collected so far
    architecture,      \* result of buildArchitecture
    result,            \* what the promise resolved to, if it did
    cancelRequested,   \* the caller asked for the run to be cancelled
    rejected,          \* the external call of the run that failed, if one did
    gFiles,            \* stand-alone grouping: the FileRecords given
    gEngine,           \* stand-alone grouping: result of buildArchitecture
    gModule,           \* stand-alone grouping: result of analyzeDependencyGraph
    cNode,             \* stand-alone complexity: the function or method node given
    cRecord,           \* stand-alone complexity: the record made for the node
    sFiles,            \* stand-alone synthesis: the FileRecords given to calculateMetrics
    sMetrics,          \* stand-alone synthesis: result of calculateMetrics
    sTypes,            \* stand-alone synthesis: the type of each Component given
    sIndex,            \* stand-alone synthesis: the maintainabilityIndex given
    sInsights,         \* stand-alone synthesis: the style and the quality label
    xRoots,            \* extraction twice: the checkout directory of each analysis
    xInput,            \* extraction twice: the file analyzed, with its commit count
    xRecords,          \* extraction twice: what each analysis gave
    vSite,             \* one visit: the function node visited and its parent
    vFunctions,        \* one visit: the functions array after the visitor
    tTree,             \* stand-alone scan: the directory tree under the root
    tScan,             \* stand-alone scan: the files returned, the directories read
    kRuns,             \* two engines: the run of each engine
    kDirs              \* two engines: the directories that exist under os.tmpdir()

vars ==
    <<pc, events, dirs, fileChangeCounts, files, i, fileAnalyses, architecture,
      result, cancelRequested, rejected, gFiles, gEngine, gModule,
      cNode, cRecord, sFiles, sMetrics, sTypes, sIndex, sInsights,
      xRoots, xInput, xRecords, vSite, vFunctions, tTree, tScan, kRuns, kDirs>>

runVars ==
    <<pc, events, dirs, fileChangeCounts, files, i, fileAnalyses, architecture,
      result, cancelRequested, rejected>>

graphVars == <<gFiles, gEngine, gModule>>

\* the variables of the functions applied on their own
functionVars ==
    <<cNode, cRecord, sFiles, sMetrics, sTypes, sIndex, sInsights,
      xRoots, xInput, xRecords, vSite, vFunctions, tTree, tScan, kRuns, kDirs>>

NoResult == [none |-> TRUE]

NoArchitecture == [components |-> <<>>, relationships |-> <<>>]

NotRun == [notRun |-> TRUE]

\* analysisDir = path.join(this.tempDir, `${repoName}-${Date.now()}`)
RepoRoot == <<"/", "t", "/", "r", "1">>

AbsPath(relPath) == RepoRoot \o <<"/">> \o relPath

\* toRepoPath when this.repoRoot is repoRoot
ToRepoPathFrom(repoRoot, absPath) ==
    SlashNormalize(ReplaceFirst(absPath, repoRoot \o <<"/">>, <<>>))

ToRepoPath(absPath) == ToRepoPathFrom(RepoRoot, absPath)

Stages == <<"cloning", "parsing", "analyzing", "generating", "complete">>

Progress(stage, progress) == [stage |-> stage, progress |-> progress]

\* the events emitted by each stretch of analyzeRepository
StartEvents == <<Progress("cloning", Frac(0, 1)), Progress("cloning", Frac(20, 1))>>

ClonedEvents == <<Progress("parsing", Frac(40, 1)), Progress("analyzing", Frac(45, 1))>>

ScannedEvents == <<Progress("analyzing", Frac(60, 1))>>

\* FileEvents with the per-file event reported under stage parsing
FileEventsAsParsing(k, n) == <<Progress("parsing", Frac(60 * n + 20 * k, n))>>

FileEvents(k, n) == <<Progress("analyzing", Frac(60 * n + 20 * k, n))>>

\* GeneratingEvents with the percent of the start of the per-file loop
GeneratingEventsAtSixty == <<Progress("generating", Frac(60, 1))>>

GeneratingEvents == <<Progress("generating", Frac(80, 1))>>

CompleteEvents == <<Progress("complete", Frac(100, 1))>>

\* EmptyAnalysis with every metric zero, the maintainability index included
EmptyAnalysisAllZero ==
    [files |-> <<>>,
     architecture |-> [components |-> <<>>, relationships |-> <<>>],
     metrics |->
        [totalFiles |-> 0,
         totalLines |-> 0,
         averageComplexity |-> Frac(0, 1),
         maxComplexity |-> 0,
         maintainabilityIndex |-> Frac(0, 1),
         technicalDebt |-> Frac(0, 1)],
     insights |->
        [architecturalStyle |-> "Unknown",
         codeQuality |-> "Unknown",
         complexityDistribution |-> "No supported files found"]]

\* the literal returned when the scan finds no file
EmptyAnalysis ==
    [files |-> <<>>,
     architecture |-> [components |-> <<>>, relationships |-> <<>>],
     metrics |->
        [totalFiles |-> 0,
         totalLines |-> 0,
         averageComplexity |-> Frac(0, 1),
         maxComplexity |-> 0,
         maintainabilityIndex |-> Frac(100, 1),
         technicalDebt |-> Frac(0, 1)],
     insights |->
        [architecturalStyle |-> "Unknown",
         codeQuality |-> "Unknown",
         complexityDistribution |-> "No supported files found"]]

\* the inputs of a run
ScanPaths == {PathM, PathAX, PathABX}

ScannedFiles == [path : { AbsPath(p) : p \in ScanPaths }, content : ScanContents]

ScanResults ==
    { fs \in UNION { [1..n -> ScannedFiles] : n \in 0..MaxFiles } :
        \A a, b \in DOMAIN fs : a # b => fs[a].path # fs[b].path }

Commits == {{PathM}, {PathM, PathAX}}

Logs == UNION { [1..n -> Commits] : n \in 0..MaxCommits }

\* the loop over log.all: one count per commit listing the file
CountChanges(log) ==
    [p \in RepoPaths |-> Cardinality({ c \in DOMAIN log : p \in log[c] })]

\* fileChangeCounts[repoRelativePath] || 0
CommitCountOf(counts, relPath) ==
    IF relPath \in DOMAIN counts THEN counts[relPath] ELSE 0

InitRun ==
    /\ pc = "start"
    /\ events = <<>>
    /\ dirs \in {{}, {"tempDir"}}
    /\ fileChangeCounts = [p \in RepoPaths |-> 0]
    /\ files = <<>>
    /\ i = 0
    /\ fileAnalyses = <<>>
    /\ architecture = NoArchitecture
    /\ result = NoResult
    /\ cancelRequested = FALSE
    /\ rejected = "none"

InitGraphIdle ==
    /\ gFiles = <<>>
    /\ gEngine = NotRun
    /\ gModule = NotRun

\* the functions applied on their own are not run, but for those of a group
InitFunctionsIdle(group) ==
    /\ group = "complexity" \/ (cNode = NotRun /\ cRecord = NotRun)
    /\ \/ group = "synthesis"
       \/ /\ sFiles = <<>>
          /\ sMetrics = NotRun
          /\ sTypes = <<>>
          /\ sIndex = Frac(100, 1)
          /\ sInsights = NotRun
    /\ \/ group = "extraction"
       \/ /\ xRoots = <<RepoRoot, RepoRoot>>
          /\ xInput = NotRun
          /\ xRecords = <<NotRun, NotRun>>
    /\ group = "visit" \/ (vSite = NotRun /\ vFunctions = NotRun)
    /\ group = "scan" \/ (tTree = <<>> /\ tScan = NotRun)
    /\ group = "engines" \/ (kRuns = <<>> /\ kDirs = {})

Init == InitRun /\ InitGraphIdle /\ InitFunctionsIdle("none")

\* the catch block of analyzeRepository: remove this.tempDir with everything
\* in it (the removal is taken to succeed), then throw
Catch(call) ==
    /\ rejected' = call
    /\ dirs' = {}
    /\ pc' = "thrown"

\* cleanupTempDir(analysisDir)
CleanupTempDir(d) == d \ {"analysisDir"}

Start ==
    /\ pc = "start"
    /\ events' = events \o StartEvents
    /\ dirs' = dirs \cup {"tempDir"}
    /\ pc' = "clone"
    /\ UNCHANGED <<fileChangeCounts, files, i, fileAnalyses, architecture, result,
                   cancelRequested, rejected>>

CloneOk ==
    /\ pc = "clone"
    /\ dirs' = dirs \cup {"analysisDir"}
    /\ events' = events \o ClonedEvents
    /\ pc' = "history"
    /\ UNCHANGED <<fileChangeCounts, files, i, fileAnalyses, architecture, result,
                   cancelRequested, rejected>>

\* CloneFails with the clone error logged and the run carried on
CloneFailsSwallowed ==
    /\ pc = "clone"
    /\ rejected' = "clone"
    /\ events' = events \o ClonedEvents
    /\ pc' = "history"
    /\ UNCHANGED <<dirs, fileChangeCounts, files, i, fileAnalyses, architecture,
                   result, cancelRequested>>

CloneFails ==
    /\ pc = "clone"
    /\ Catch("clone")
    /\ UNCHANGED <<events, fileChangeCounts, files, i, fileAnalyses, architecture,
                   result, cancelRequested>>

HistoryOk ==
    /\ pc = "history"
    /\ \E log \in Logs : fileChangeCounts' = CountChanges(log)
    /\ pc' = "scan"
    /\ UNCHANGED <<events, dirs, files, i, fileAnalyses, architecture, result,
                   cancelRequested, rejected>>

\* repoGit.log() or repoGit.show(...) rejects
HistoryFails ==
    /\ pc = "history"
    /\ Catch("history")
    /\ UNCHANGED <<events, fileChangeCounts, files, i, fileAnalyses, architecture,
                   result, cancelRequested>>

ScanEmpty ==
    /\ pc = "scan"
    /\ files' = <<>>
    /\ result' = EmptyAnalysis
    /\ pc' = "returned"
    /\ UNCHANGED <<events, dirs, fileChangeCounts, i, fileAnalyses, architecture,
                   cancelRequested, rejected>>

ScanFound ==
    /\ pc = "scan"
    /\ \E fs \in ScanResults :
          /\ Len(fs) > 0
          /\ files' = fs
          /\ events' = events \o ScannedEvents
    /\ i' = 0
    /\ fileAnalyses' = <<>>
    /\ pc' = "files"
    /\ UNCHANGED <<dirs, fileChangeCounts, architecture, result, cancelRequested, rejected>>

\* readdir or stat rejects
ScanFails ==
    /\ pc = "scan"
    /\ Catch("scan")
    /\ UNCHANGED <<events, fileChangeCounts, files, i, fileAnalyses, architecture,
                   result, cancelRequested>>

\* AfterFile with a failing file recorded with zero values instead of skipped
AfterFileRecordsFailure(analyses, counts, file) ==
    LET r == AnalyzeFile(file)
        repoRelativePath == ToRepoPath(file.path)
        value ==
            IF r.ret = "value" THEN r.value
            ELSE AnalyzeAST(file.path, Source(0, <<>>, <<>>, <<>>))
    IN  Append(analyses,
            [path |-> repoRelativePath,
             commitCount |-> CommitCountOf(counts, repoRelativePath)] @@ value)

\* NormalizedAnalysis with analysis.path left as analyzeAST set it
NormalizedAnalysisKeepsPath(repoRoot, counts, analysis) ==
    LET repoRelativePath == ToRepoPathFrom(repoRoot, analysis.path)
    IN  [commitCount |-> CommitCountOf(counts, repoRelativePath)] @@ analysis

\* the analysis of a file once the loop has set its commitCount and its path
NormalizedAnalysis(repoRoot, counts, analysis) ==
    LET repoRelativePath == ToRepoPathFrom(repoRoot, analysis.path)
    IN  [path |-> repoRelativePath,
         commitCount |-> CommitCountOf(counts, repoRelativePath)] @@ analysis

\* what one iteration of the per-file loop leaves in fileAnalyses
AfterFile(analyses, counts, file) ==
    LET r == AnalyzeFile(file)
    IN  IF r.ret = "value"
        THEN Append(analyses, NormalizedAnalysis(RepoRoot, counts, r.value))
        ELSE analyses

\* AnalyzeNextFile with the loop left after its first iteration
AnalyzeNextFileStopsEarly ==
    /\ pc = "files"
    /\ i < Len(files)
    /\ events' = events \o FileEvents(i, Len(files))
    /\ fileAnalyses' = AfterFile(fileAnalyses, fileChangeCounts, files[i + 1])
    /\ i' = i + 1
    /\ pc' = "generate"
    /\ UNCHANGED <<dirs, fileChangeCounts, files, architecture, result,
                   cancelRequested, rejected>>

AnalyzeNextFile ==
    /\ pc = "files"
    /\ i < Len(files)
    /\ events' = events \o FileEvents(i, Len(files))
    /\ fileAnalyses' = AfterFile(fileAnalyses, fileChangeCounts, files[i + 1])
    /\ i' = i + 1
    /\ pc' = IF i + 1 < Len(files) THEN "files" ELSE "generate"
    /\ UNCHANGED <<dirs, fileChangeCounts, files, architecture, result,
                   cancelRequested, rejected>>

Generate ==
    /\ pc = "generate"
    /\ events' = events \o GeneratingEvents
    /\ architecture' = BuildArchitecture(fileAnalyses)
    /\ pc' = "synthesize"
    /\ UNCHANGED <<dirs, fileChangeCounts, files, i, fileAnalyses, result,
                   cancelRequested, rejected>>

\* Complete with generateInsights sorting the list of FileRecords itself
\* instead of the copy that filter returns
CompleteSortsFiles ==
    /\ pc = "synthesize"
    /\ fileAnalyses' = SortDescending(fileAnalyses, Cyclomatics(fileAnalyses))
    /\ LET metrics == CalculateMetrics(fileAnalyses)
           insights == GenerateInsights(fileAnalyses, architecture, metrics)
       IN  result' = [files |-> fileAnalyses', architecture |-> architecture,
                      metrics |-> metrics, insights |-> insights]
    /\ events' = events \o CompleteEvents
    /\ dirs' = CleanupTempDir(dirs)
    /\ pc' = "returned"
    /\ UNCHANGED <<fileChangeCounts, files, i, architecture, cancelRequested, rejected>>

\* calculateMetrics, generateInsights, the complete event, the cleanup and
\* the return
Complete ==
    /\ pc = "synthesize"
    /\ LET metrics == CalculateMetrics(fileAnalyses)
           insights == GenerateInsights(fileAnalyses, architecture, metrics)
       IN  result' = [files |-> fileAnalyses, architecture |-> architecture,
                      metrics |-> metrics, insights |-> insights]
    /\ events' = events \o CompleteEvents
    /\ dirs' = CleanupTempDir(dirs)
    /\ pc' = "returned"
    /\ UNCHANGED <<fileChangeCounts, files, i, fileAnalyses, architecture,
                   cancelRequested, rejected>>

\* the caller asks for cancellation; analyzeRepository(repoUrl) takes no
\* signal and reads no flag, so nothing else changes
RequestCancel ==
    /\ pc \notin {"returned", "thrown"}
    /\ ~cancelRequested
    /\ cancelRequested' = TRUE
    /\ UNCHANGED <<pc, events, dirs, fileChangeCounts, files, i, fileAnalyses,
                   architecture, result, rejected>>

Next ==
    \/ Start
    \/ CloneOk
    \/ CloneFails
    \/ HistoryOk
    \/ HistoryFails
    \/ ScanEmpty
    \/ ScanFound
    \/ ScanFails
    \/ AnalyzeNextFile
    \/ Generate
    \/ Complete
    \/ RequestCancel

NextRun == Next /\ UNCHANGED <<graphVars, functionVars>>

Spec == Init /\ [][NextRun]_vars

(***************************************************************************)
(* Grouping and relationship building on their own: the FileRecords are    *)
(* drawn from a bounded set, then buildArchitecture (the engine) and       *)
(* analyzeDependencyGraph (the modular engine) are applied to them.        *)
(***************************************************************************)
GraphClasses == {<<>>, <<[extends |-> <<"x">>, methods |-> <<1>>]>>}

GraphImports == {<<>>, <<ModXTs>>, <<ModY>>}

GraphContents ==
    { Source(10, <<2>>, cs, is) : cs \in GraphClasses, is \in GraphImports }

\* the FileRecord the per-file loop collects for a content at a path
FileRecordAt(path, content) ==
    [path |-> path, commitCount |-> 0] @@ AnalyzeAST(path, content)

\* the engine passes repo-relative paths; the modular engine passes the paths
\* of its scan, relative or absolute
GraphInputs(prefix) ==
    { fs \in UNION { [1..n -> { FileRecordAt(prefix \o p, c) :
                                  p \in RepoPaths, c \in GraphContents }] :
                     n \in 0..MaxGraphFiles } :
        \A a, b \in DOMAIN fs : a # b => fs[a].path # fs[b].path }

IsRepoRelative(fs) == \A k \in DOMAIN fs : ~StartsWith(fs[k].path, <<"/">>)

InitRunIdle ==
    /\ pc = "idle"
    /\ events = <<>>
    /\ dirs = {}
    /\ fileChangeCounts = [p \in RepoPaths |-> 0]
    /\ files = <<>>
    /\ i = 0
    /\ fileAnalyses = <<>>
    /\ architecture = NoArchitecture
    /\ result = NoResult
    /\ cancelRequested = FALSE
    /\ rejected = "none"

InitGraph ==
    /\ InitRunIdle
    /\ gFiles \in GraphInputs(<<>>) \cup GraphInputs(RepoRoot \o <<"/">>)
    /\ gEngine = NotRun
    /\ gModule = NotRun
    /\ InitFunctionsIdle("none")

RunBuildArchitecture ==
    /\ gEngine = NotRun
    /\ IsRepoRelative(gFiles)
    /\ gEngine' = BuildArchitecture(gFiles)
    /\ UNCHANGED <<gFiles, gModule>>

RunAnalyzeDependencyGraph ==
    /\ gModule = NotRun
    /\ gModule' = AnalyzeDependencyGraph(gFiles)
    /\ UNCHANGED <<gFiles, gEngine>>

NextGraph ==
    /\ \/ RunBuildArchitecture
       \/ RunAnalyzeDependencyGraph
    /\ UNCHANGED <<runVars, functionVars>>

SpecGraph == InitGraph /\ [][NextGraph]_vars

(***************************************************************************)
(* Grouping of a repository that has a directory named root next to files  *)
(* in the repository root, and a file importing c/x.ts, a specifier no     *)
(* path contains and whose last segment is the one of two paths.           *)
(***************************************************************************)
PathRootX == <<"r", "o", "o", "t", "/", "x", ".", "t", "s">>

NameInputs ==
    { fs \in UNION { [1..n -> { FileRecordAt(p, c) :
                                  p \in {PathM, PathRootX, PathAX},
                                  c \in GraphContents
                                        \cup {Source(10, <<2>>, <<>>,
                                                     <<<<"c", "/", "x", ".", "t", "s">>>>)} }] :
                     n \in 0..MaxGraphFiles } :
        \A a, b \in DOMAIN fs : a # b => fs[a].path # fs[b].path }

InitNames ==
    /\ InitRunIdle
    /\ gFiles \in NameInputs
    /\ gEngine = NotRun
    /\ gModule = NotRun
    /\ InitFunctionsIdle("none")

SpecNames == InitNames /\ [][NextGraph]_vars

(***************************************************************************)
(* Grouping of a repository whose paths contain the markers that           *)
(* determineComponentType looks for: api/page.ts, c/route.ts, c/util.ts,   *)
(* page/util.ts, component/x.ts, service/x.ts and a/x.ts.                  *)
(***************************************************************************)
InitTypes ==
    LET Ts == <<".", "t", "s">>
        paths ==
            { <<"a", "p", "i", "/", "p", "a", "g", "e">> \o Ts,
              <<"c", "/", "r", "o", "u", "t", "e">> \o Ts,
              <<"c", "/", "u", "t", "i", "l">> \o Ts,
              <<"p", "a", "g", "e", "/", "u", "t", "i", "l">> \o Ts,
              <<"c", "o", "m", "p", "o", "n", "e", "n", "t", "/", "x">> \o Ts,
              <<"s", "e", "r", "v", "i", "c", "e", "/", "x">> \o Ts,
              PathAX }
        records == { FileRecordAt(p, ContentPlain) : p \in paths }
    IN  /\ InitRunIdle
        /\ gFiles \in { fs \in UNION { [1..n -> records] : n \in 0..MaxGraphFiles } :
                          \A a, b \in DOMAIN fs : a # b => fs[a].path # fs[b].path }
        /\ gEngine = NotRun
        /\ gModule = NotRun
        /\ InitFunctionsIdle("none")

SpecTypes == InitTypes /\ [][NextGraph]_vars

(***************************************************************************)
(* calculateFunctionComplexity on its own: a function or method node is    *)
(* drawn, then scored.                                                     *)
(***************************************************************************)
\* the nodes given to calculateFunctionComplexity by the visitors of
\* analyzeAST: declarations and methods whose block body holds up to
\* MaxStatements of the statements below, arrow functions with a block or an
\* expression as body
FunctionNodes ==
    LET Identifier == Node("Identifier", "", <<>>)
        ExpressionStatement(expression) ==
            Node("ExpressionStatement", "",
                 <<Prop("expression", FALSE, <<expression>>)>>)
        BlockStatement(body) ==
            Node("BlockStatement", "", <<Prop("body", TRUE, body)>>)
        \* if (test) consequent, with alternate <<>> (null) or <<node>>
        IfStatement(test, consequent, alternate) ==
            Node("IfStatement", "",
                 <<Prop("test", FALSE, <<test>>),
                   Prop("consequent", FALSE, <<consequent>>)>>
                 \o (IF alternate = <<>> THEN <<>>
                     ELSE <<Prop("alternate", FALSE, alternate)>>))
        LogicalExpression(operator, left, right) ==
            Node("LogicalExpression", operator,
                 <<Prop("left", FALSE, <<left>>), Prop("right", FALSE, <<right>>)>>)
        \* a function declaration, function expression, arrow function or
        \* class method with the given body
        Callable(type, body) ==
            Node(type, "",
                 <<Prop("params", TRUE, <<>>), Prop("body", FALSE, <<body>>)>>)
        plainIf == IfStatement(Identifier, BlockStatement(<<>>), <<>>)
        ifInIf == IfStatement(Identifier, BlockStatement(<<plainIf>>), <<>>)
        elseIf == IfStatement(Identifier, BlockStatement(<<>>), <<plainIf>>)
        ifAnd ==
            IfStatement(LogicalExpression("&&", Identifier, Identifier),
                        BlockStatement(<<>>), <<>>)
        orInAnd ==
            ExpressionStatement(
                LogicalExpression("&&",
                    LogicalExpression("||", Identifier, Identifier), Identifier))
        nullish ==
            ExpressionStatement(LogicalExpression("??", Identifier, Identifier))
        ternary ==
            ExpressionStatement(
                Node("ConditionalExpression", "",
                     <<Prop("test", FALSE, <<Identifier>>),
                       Prop("consequent", FALSE, <<Identifier>>),
                       Prop("alternate", FALSE, <<Identifier>>)>>))
        forOfWithIf ==
            Node("ForOfStatement", "",
                 <<Prop("left", FALSE, <<Identifier>>),
                   Prop("right", FALSE, <<Identifier>>),
                   Prop("body", FALSE, <<BlockStatement(<<plainIf>>)>>)>>)
        switchTwoCases ==
            Node("SwitchStatement", "",
                 <<Prop("discriminant", FALSE, <<Identifier>>),
                   Prop("cases", TRUE,
                        <<Node("SwitchCase", "",
                               <<Prop("test", FALSE, <<Identifier>>),
                                 Prop("consequent", TRUE, <<plainIf>>)>>),
                          Node("SwitchCase", "",
                               <<Prop("consequent", TRUE, <<>>)>>)>>)>>)
        tryCatch ==
            Node("TryStatement", "",
                 <<Prop("block", FALSE, <<BlockStatement(<<>>)>>),
                   Prop("handler", FALSE,
                        <<Node("CatchClause", "",
                               <<Prop("body", FALSE, <<BlockStatement(<<>>)>>)>>)>>)>>)
        innerDeclaration ==
            Callable("FunctionDeclaration", BlockStatement(<<plainIf>>))
        ifAroundInner ==
            IfStatement(Identifier,
                BlockStatement(<<Callable("FunctionDeclaration",
                                    BlockStatement(<<plainIf, plainIf, plainIf>>))>>),
                <<>>)
        callWithArrow ==
            ExpressionStatement(
                Node("CallExpression", "",
                     <<Prop("callee", FALSE, <<Identifier>>),
                       Prop("arguments", TRUE,
                            <<Callable("ArrowFunctionExpression",
                                       BlockStatement(<<plainIf>>))>>)>>))
        initializer ==
            Node("VariableDeclaration", "",
                 <<Prop("declarations", TRUE,
                        <<Node("VariableDeclarator", "",
                               <<Prop("id", FALSE, <<Identifier>>),
                                 Prop("init", FALSE,
                                      <<Callable("FunctionExpression",
                                                 BlockStatement(<<plainIf>>))>>)>>)>>)>>)
        statements ==
            {ExpressionStatement(Identifier), plainIf, ifInIf, elseIf, ifAnd,
             orInAnd, nullish, ternary, forOfWithIf, switchTwoCases, tryCatch,
             innerDeclaration, ifAroundInner, callWithArrow, initializer}
        bodies == UNION { [1..n -> statements] : n \in 0..MaxStatements }
    IN  { Callable(type, BlockStatement(body)) :
            type \in {"FunctionDeclaration", "ClassMethod"}, body \in bodies }
        \cup { Callable("ArrowFunctionExpression", expression) :
                 expression \in
                    {Identifier,
                     LogicalExpression("||", Identifier, Identifier),
                     Callable("ArrowFunctionExpression", BlockStatement(<<plainIf>>)),
                     BlockStatement(<<plainIf, plainIf, plainIf>>)} }

InitComplexity ==
    /\ InitRunIdle
    /\ InitGraphIdle
    /\ InitFunctionsIdle("complexity")
    /\ cNode \in FunctionNodes
    /\ cRecord = NotRun

RunCalculateFunctionComplexity ==
    /\ cRecord = NotRun
    /\ cRecord' = [complexity |-> CalculateFunctionComplexity(cNode)]
    /\ UNCHANGED <<cNode, runVars, graphVars,
                   sFiles, sMetrics, sTypes, sIndex, sInsights,
                   xRoots, xInput, xRecords,
                   vSite, vFunctions, tTree, tScan, kRuns, kDirs>>

SpecComplexity == InitComplexity /\ [][RunCalculateFunctionComplexity]_vars

(***************************************************************************)
(* calculateMetrics, determineArchitecturalStyle and assessCodeQuality on  *)
(* their own: the arguments of one of them are drawn, then it is applied.  *)
(***************************************************************************)
\* FileRecords of one function each, below, at and above the threshold
MetricInputs ==
    { fs \in UNION { [1..n -> { FileRecordAt(p, Source(20, <<c>>, <<>>, <<>>)) :
                                  p \in ScanPaths, c \in {1, 10, 11, 15} }] :
                     n \in 0..MaxMetricFiles } :
        \A a, b \in DOMAIN fs : a # b => fs[a].path # fs[b].path }

\* FileRecords for the top-5 lists: file k has one of three pairs of
\* cyclomatic complexity and commit count, at and above the threshold of each
\* list
InsightInputs ==
    LET digits == <<"1", "2", "3", "4", "5", "6", "7", "8">>
        pairs == {<<10, 1>>, <<11, 3>>, <<12, 2>>}
        Record(k, pair) ==
            [commitCount |-> pair[2]]
            @@ FileRecordAt(<<"f", digits[k], ".", "t", "s">>,
                            Source(20, <<pair[1]>>, <<>>, <<>>))
    IN  UNION { { [k \in 1..n |-> Record(k, choice[k])] : choice \in [1..n -> pairs] } :
                n \in 0..MaxInsightFiles }

\* the values of determineComponentType
ComponentTypes == {"api", "page", "service", "component"}

\* either the FileRecords are drawn, for the metrics or for the top-5 lists,
\* or the Component types and a maintainability index at or next to a
\* threshold (in units of 1/1000)
InitSynthesis ==
    /\ InitRunIdle
    /\ InitGraphIdle
    /\ InitFunctionsIdle("synthesis")
    /\ sMetrics = NotRun
    /\ sInsights = NotRun
    /\ \/ /\ sFiles \in MetricInputs \cup InsightInputs
          /\ sTypes = <<>>
          /\ sIndex = Frac(100, 1)
       \/ /\ sFiles = <<>>
          /\ sTypes \in UNION { [1..n -> ComponentTypes] : n \in 0..MaxComponents }
          /\ sIndex \in
                { Frac(v, 1000) :
                    v \in {0, 39999, 40000, 40001, 60000, 60001, 80000, 80001,
                           100000} }

RunCalculateMetrics ==
    /\ sMetrics = NotRun
    /\ sMetrics' = CalculateMetrics(sFiles)
    /\ UNCHANGED <<sFiles, sTypes, sIndex, sInsights, cNode, cRecord, runVars,
                   graphVars, xRoots, xInput, xRecords,
                   vSite, vFunctions, tTree, tScan, kRuns, kDirs>>

\* the top-5 lists of generateInsights and its two labels that depend on
\* nothing but the Component types and the maintainability index
RunGenerateInsights ==
    /\ sInsights = NotRun
    /\ sInsights' =
          [architecturalStyle |->
              DetermineArchitecturalStyle(
                  [components |-> [k \in DOMAIN sTypes |-> [type |-> sTypes[k]]]]),
           codeQuality |-> AssessCodeQuality([maintainabilityIndex |-> sIndex]),
           highComplexityFiles |-> HighComplexityFiles(sFiles),
           hotspots |-> Hotspots(sFiles)]
    /\ UNCHANGED <<sFiles, sMetrics, sTypes, sIndex, cNode, cRecord, runVars,
                   graphVars, xRoots, xInput, xRecords,
                   vSite, vFunctions, tTree, tScan, kRuns, kDirs>>

SpecSynthesis ==
    InitSynthesis /\ [][RunCalculateMetrics \/ RunGenerateInsights]_vars

(***************************************************************************)
(* The analysis of one file made twice, each time in a checkout directory  *)
(* of its own name (or in the same one).                                   *)
(***************************************************************************)
\* path.join(this.tempDir, `${repoName}-${Date.now()}`) at two times
CheckoutDirs == {RepoRoot, <<"/", "t", "/", "r", "2">>}

InitExtract ==
    /\ InitRunIdle
    /\ InitGraphIdle
    /\ InitFunctionsIdle("extraction")
    /\ xRoots \in CheckoutDirs \X CheckoutDirs
    /\ xInput \in [path : ScanPaths, content : ScanContents, commits : 0..MaxCommits]
    /\ xRecords = <<NotRun, NotRun>>

\* the body of the per-file loop for the file in the checkout of an analysis
Extract ==
    /\ \E run \in DOMAIN xRecords :
          /\ xRecords[run] = NotRun
          /\ LET file == [path |-> xRoots[run] \o <<"/">> \o xInput.path,
                          content |-> xInput.content]
                 counts == [p \in RepoPaths |-> xInput.commits]
                 r == AnalyzeFile(file)
             IN  xRecords' =
                    [xRecords EXCEPT
                       ![run] =
                          IF r.ret = "value"
                          THEN NormalizedAnalysis(xRoots[run], counts, r.value)
                          ELSE [skipped |-> r.ret]]
    /\ UNCHANGED <<xRoots, xInput, runVars, graphVars,
                   cNode, cRecord, sFiles, sMetrics, sTypes, sIndex, sInsights,
                   vSite, vFunctions, tTree, tScan, kRuns, kDirs>>

SpecExtract == InitExtract /\ [][Extract]_vars

(***************************************************************************)
(* The function visitors of analyzeAST on their own: traverse reaches one  *)
(* function node, and the visitor of its type runs on it.                  *)
(***************************************************************************)
\* the visits: node is the function (its id is <<>> when it has none), parent
\* the node that holds it (its id is <<>> when the parent is no declarator)
VisitSites ==
    LET Name(s) == <<[type |-> "Identifier", name |-> s]>>
        Pattern == <<[type |-> "ObjectPattern", name |-> <<>>]>>
        Parent(type, id) == [type |-> type, id |-> id]
        \* function bodies of at most one statement
        functions ==
            { n \in FunctionNodes :
                /\ n.type = "FunctionDeclaration"
                /\ Len(n.props[2].nodes[1].props[1].nodes) <= 1 }
        expressionParents ==
            { Parent("VariableDeclarator", Name(<<"g">>)),
              Parent("VariableDeclarator", Pattern),
              Parent("CallExpression", <<>>),
              Parent("AssignmentExpression", <<>>),
              Parent("ObjectProperty", <<>>) }
        Site(type, id, parent, n) ==
            [node |-> [n EXCEPT !.type = type], id |-> id, parent |-> parent]
    IN  { Site("FunctionDeclaration", id, Parent(type, <<>>), n) :
            id \in {Name(<<"f">>)},
            type \in {"Program", "BlockStatement", "ExportDefaultDeclaration"},
            n \in functions }
        \cup { Site("FunctionDeclaration", <<>>,
                    Parent("ExportDefaultDeclaration", <<>>), n) : n \in functions }
        \cup { Site("FunctionExpression", id, parent, n) :
                 id \in {<<>>, Name(<<"f">>)}, parent \in expressionParents,
                 n \in functions }
        \cup { Site("ArrowFunctionExpression", <<>>, parent, n) :
                 parent \in expressionParents, n \in functions }

InitVisit ==
    /\ InitRunIdle
    /\ InitGraphIdle
    /\ InitFunctionsIdle("visit")
    /\ vSite \in VisitSites
    /\ vFunctions = NotRun

\* the visitor registered for the type of the node, on an empty functions
\* array
Visit ==
    /\ vFunctions = NotRun
    /\ LET func == vSite.node
           FunctionInfo(name) ==
               [name |-> name, complexity |-> CalculateFunctionComplexity(func)]
           pushed ==
               CASE func.type = "FunctionDeclaration" ->
                      <<FunctionInfo(IF vSite.id # <<>> THEN vSite.id[1].name
                                     ELSE <<"a", "n", "o", "n", "y", "m", "o", "u", "s">>)>>
                 [] func.type = "FunctionExpression" ->
                      IF vSite.id # <<>> THEN <<FunctionInfo(vSite.id[1].name)>>
                      ELSE <<>>
                 [] func.type = "ArrowFunctionExpression" ->
                      IF /\ vSite.parent.type = "VariableDeclarator"
                         /\ vSite.parent.id # <<>>
                         /\ vSite.parent.id[1].type = "Identifier"
                      THEN <<FunctionInfo(vSite.parent.id[1].name)>>
                      ELSE <<>>
       IN  vFunctions' = [functions |-> pushed]
    /\ UNCHANGED <<vSite, runVars, graphVars,
                   cNode, cRecord, sFiles, sMetrics, sTypes, sIndex, sInsights,
                   xRoots, xInput, xRecords, tTree, tScan, kRuns, kDirs>>

SpecVisit == InitVisit /\ [][Visit]_vars

(***************************************************************************)
(* scanFiles on its own: a directory tree under the checkout is drawn,     *)
(* then scanned.                                                           *)
(***************************************************************************)
\* the defaults of the constructor that scanFiles reads
Config ==
    [maxFileSize |-> 1024 * 1024,
     ignorePatterns |-> {<<"n", "o", "d", "e", "_", "m", "o", "d", "u", "l", "e", "s">>, <<".", "g", "i", "t">>, <<"d", "i", "s", "t">>, <<"b", "u", "i", "l", "d">>}]

\* s.toLowerCase(), for the capital letters of the modelled names
ToLowerCase(s) ==
    LET lower == ("X" :> "x") @@ ("T" :> "t") @@ ("S" :> "s")
    IN  [k \in DOMAIN s |-> IF s[k] \in DOMAIN lower THEN lower[s[k]] ELSE s[k]]

IsSupportedFile(ext) ==
    ext \in {<<".", "j", "s">>, <<".", "t", "s">>, <<".", "j", "s", "x">>, <<".", "t", "s", "x">>, <<".", "c", "j", "s">>, <<".", "m", "j", "s">>}

\* ShouldIgnore with the comparison of the name only
ShouldIgnoreByName(item, fullPath) ==
    \E pattern \in Config.ignorePatterns : item = pattern

\* ignorePatterns.some(pattern => item === pattern || fullPath.includes(pattern))
ShouldIgnore(item, fullPath) ==
    \E pattern \in Config.ignorePatterns :
        item = pattern \/ Includes(fullPath, pattern)

RECURSIVE ScanDirectory(_, _, _, _)
\* scanDirectory(currentDir) from its item k on: tree lists the entries under
\* the root, each directory's in the order readdir gives them; acc holds the
\* files pushed and the directories read so far
ScanDirectory(tree, currentDir, k, acc) ==
    LET items ==
            AtPositions(tree, { j \in DOMAIN tree : Dirname(tree[j].path) = currentDir })
        entered ==
            IF k = 1 THEN [acc EXCEPT !.read = Append(@, currentDir)] ELSE acc
        Extname(name) ==
            LET dots == { j \in DOMAIN name : name[j] = "." }
            IN  IF dots = {} \/ SetMax(dots) = 1 THEN <<>>
                ELSE SubSeq(name, SetMax(dots), Len(name))
    IN  IF k > Len(items) THEN entered
        ELSE LET fullPath == items[k].path
                 item == LastSegment(fullPath)
                 after ==
                     IF items[k].kind = "directory"
                     THEN IF ShouldIgnore(item, fullPath) THEN entered
                          ELSE ScanDirectory(tree, fullPath, 1, entered)
                     ELSE IF /\ IsSupportedFile(ToLowerCase(Extname(item)))
                             /\ items[k].size <= Config.maxFileSize
                          THEN [entered EXCEPT !.files = Append(@, fullPath)]
                          ELSE entered
             IN  ScanDirectory(tree, currentDir, k + 1, after)

\* the trees: the entries below, those of a directory being there only with
\* the directory, every file at or just above maxFileSize
ScanTrees ==
    LET Directory(p) == [path |-> AbsPath(p), kind |-> "directory", size |-> 0]
        File(p) == [path |-> AbsPath(p), kind |-> "file", size |-> 0]
        entries ==
            <<Directory(<<"a">>),
              Directory(<<"a", "/", "b">>),
              File(<<"a", "/", "b", "/", "X", ".", "T", "S">>),
              Directory(<<"a", "/", "r", "e", "b", "u", "i", "l", "d">>),
              File(<<"a", "/", "r", "e", "b", "u", "i", "l", "d", "/", "x", ".", "t", "s">>),
              File(<<"a", "/", "y", ".", "m", "d">>),
              Directory(<<"d", "i", "s", "t">>),
              File(<<"d", "i", "s", "t", "/", "x", ".", "t", "s">>),
              File(<<"x", ".", "t", "s">>)>>
        Closed(I) ==
            \A k \in I :
                \/ Dirname(entries[k].path) = RepoRoot
                \/ \E j \in I : entries[j].path = Dirname(entries[k].path)
        Sized(tree, sizes) ==
            [k \in DOMAIN tree |->
                IF tree[k].kind = "file" THEN [tree[k] EXCEPT !.size = sizes[k]]
                ELSE tree[k]]
    IN  UNION { { Sized(AtPositions(entries, I), sizes) :
                    sizes \in [1..Cardinality(I) ->
                                 {Config.maxFileSize, Config.maxFileSize + 1}] } :
                I \in { J \in SUBSET DOMAIN entries : Closed(J) } }

InitScan ==
    /\ InitRunIdle
    /\ InitGraphIdle
    /\ InitFunctionsIdle("scan")
    /\ tTree \in ScanTrees
    /\ tScan = NotRun

\* scanFiles(analysisDir)
RunScanFiles ==
    /\ tScan = NotRun
    /\ tScan' = ScanDirectory(tTree, RepoRoot, 1, [files |-> <<>>, read |-> <<>>])
    /\ UNCHANGED <<tTree, runVars, graphVars,
                   cNode, cRecord, sFiles, sMetrics, sTypes, sIndex, sInsights,
                   xRoots, xInput, xRecords, vSite, vFunctions, kRuns, kDirs>>

SpecScan == InitScan /\ [][RunScanFiles]_vars

(***************************************************************************)
(* Two engine objects, each running analyzeRepository once, interleaved    *)
(* at their awaits.  Both constructors set tempDir to the same directory   *)
(* os.tmpdir()/navvi-analysis; the checkouts have different names.         *)
(***************************************************************************)
Engines == {1, 2}

\* analysisDir of the run of an engine
Checkout(e) == IF e = 1 THEN "analysisDir1" ELSE "analysisDir2"

InitEngines ==
    /\ InitRunIdle
    /\ InitGraphIdle
    /\ InitFunctionsIdle("engines")
    /\ kRuns = [e \in Engines |->
                   [pc |-> "start", files |-> 0, i |-> 0, analyzed |-> 0,
                    rejected |-> "none"]]
    /\ kDirs \in {{}, {"tempDir"}}

\* the variables that the runs of the two engines leave alone
EnginesFrame ==
    UNCHANGED <<runVars, graphVars,
                cNode, cRecord, sFiles, sMetrics, sTypes, sIndex, sInsights,
                xRoots, xInput, xRecords, vSite, vFunctions, tTree, tScan>>

\* mkdirSync(this.tempDir) if it does not exist, up to the clone
EngineStart(e) ==
    /\ kRuns[e].pc = "start"
    /\ kDirs' = kDirs \cup {"tempDir"}
    /\ kRuns' = [kRuns EXCEPT ![e].pc = "clone"]
    /\ EnginesFrame

\* git clone creates analysisDir and the directories that lead to it
EngineCloneOk(e) ==
    /\ kRuns[e].pc = "clone"
    /\ kDirs' = kDirs \cup {"tempDir", Checkout(e)}
    /\ kRuns' = [kRuns EXCEPT ![e].pc = "history"]
    /\ EnginesFrame

\* repoGit.log() and repoGit.show(...) in the checkout
EngineHistoryOk(e) ==
    /\ kRuns[e].pc = "history"
    /\ Checkout(e) \in kDirs
    /\ kRuns' = [kRuns EXCEPT ![e].pc = "scan"]
    /\ UNCHANGED kDirs
    /\ EnginesFrame

\* scanFiles(analysisDir): readdir and stat in the checkout; with no file
\* found the run returns the empty analysis and leaves the checkout
EngineScanOk(e) ==
    /\ kRuns[e].pc = "scan"
    /\ Checkout(e) \in kDirs
    /\ \E n \in 0..MaxFiles :
          kRuns' = [kRuns EXCEPT ![e].files = n,
                                 ![e].pc = IF n = 0 THEN "returned" ELSE "files"]
    /\ UNCHANGED kDirs
    /\ EnginesFrame

\* one iteration of the per-file loop: a file that cannot be read, as when
\* the checkout is gone, or cannot be parsed is skipped
EngineAnalyzeNextFile(e) ==
    /\ kRuns[e].pc = "files"
    /\ \E done \in {0, 1} :
          /\ done = 1 => Checkout(e) \in kDirs
          /\ kRuns' = [kRuns EXCEPT
                         ![e].i = @ + 1,
                         ![e].analyzed = @ + done,
                         ![e].pc = IF kRuns[e].i + 1 < kRuns[e].files
                                   THEN "files" ELSE "synthesize"]
    /\ UNCHANGED kDirs
    /\ EnginesFrame

\* the synthesis, cleanupTempDir(analysisDir) and the return
EngineComplete(e) ==
    /\ kRuns[e].pc = "synthesize"
    /\ kDirs' = kDirs \ {Checkout(e)}
    /\ kRuns' = [kRuns EXCEPT ![e].pc = "returned"]
    /\ EnginesFrame

\* the clone, the git history or the scan rejects, as each does when the
\* checkout is missing and as each can otherwise; the catch block removes
\* this.tempDir with everything in it and throws
EngineFails(e) ==
    /\ kRuns[e].pc \in {"clone", "history", "scan"}
    /\ kDirs' = {}
    /\ kRuns' = [kRuns EXCEPT ![e].rejected = kRuns[e].pc, ![e].pc = "thrown"]
    /\ EnginesFrame

SpecEngines ==
    InitEngines
    /\ [][\E e \in Engines :
             \/ EngineStart(e)
             \/ EngineCloneOk(e)
             \/ EngineHistoryOk(e)
             \/ EngineScanOk(e)
             \/ EngineAnalyzeNextFile(e)
             \/ EngineComplete(e)
             \/ EngineFails(e)]_vars

(***************************************************************************)
(* Properties of the orchestrator.                                         *)
(***************************************************************************)
StageRank(stage) == CHOOSE r \in DOMAIN Stages : Stages[r] = stage

StagesEmitted == { events[k].stage : k \in DOMAIN events }

LastStage == IF events = <<>> THEN "none" ELSE events[Len(events)].stage

\* positions in the scan result of the files that can be read and parsed
SourceIndices == { k \in DOMAIN files : files[k].content.kind = "source" }

FailingIndices == DOMAIN files \ SourceIndices

\* C1: a run whose scan found N >= 1 files, any of which fail to be read or
\* parsed, is not aborted; it reaches stage complete and returns an analysis
\* whose files are exactly the non-failing files in scan order, and a failing
\* file is in no Component's file list and adds nothing to totalFiles and
\* totalLines.
C1_FailingFilesOmitted ==
    /\ pc = "thrown" => files = <<>>
    /\ (pc = "returned" /\ files # <<>>) =>
          LET good == AtPositions(files, SourceIndices)
              components == result.architecture.components
          IN  /\ LastStage = "complete"
              /\ Len(result.files) = Len(good)
              /\ \A k \in DOMAIN good : AbsPath(result.files[k].path) = good[k].path
              /\ \A k \in FailingIndices : \A c \in DOMAIN components :
                    \A j \in DOMAIN components[c].files :
                       AbsPath(components[c].files[j]) # files[k].path
              /\ result.metrics.totalFiles = Len(good)
              /\ result.metrics.totalLines =
                    SumSeq([k \in DOMAIN good |-> good[k].content.lines])

C1_Witness ==
    /\ pc = "returned"
    /\ SourceIndices # {}
    /\ FailingIndices # {}
    /\ \E k \in FailingIndices : files[k].content.kind = "syntaxError"

\* C2: when the scan yields no file the run returns, without throwing, an
\* analysis with files, components and relationships empty, totalFiles 0,
\* totalLines 0, averageComplexity 0, maxComplexity 0, technicalDebt 0 and
\* maintainabilityIndex 100.
C2_EmptyScanResult ==
    (pc \in {"returned", "thrown"} /\ files = <<>> /\ rejected = "none") =>
       /\ pc = "returned"
       /\ result.files = <<>>
       /\ result.architecture.components = <<>>
       /\ result.architecture.relationships = <<>>
       /\ result.metrics.totalFiles = 0
       /\ result.metrics.totalLines = 0
       /\ FracIs(result.metrics.averageComplexity, 0)
       /\ result.metrics.maxComplexity = 0
       /\ FracIs(result.metrics.technicalDebt, 0)
       /\ FracIs(result.metrics.maintainabilityIndex, 100)

C2_Witness == pc = "returned" /\ files = <<>> /\ result # NoResult

\* C3: the stages of the progress events of a run never go backwards in the
\* order cloning, parsing, analyzing, generating, complete.
C3_StagesNeverGoBack ==
    \A a, b \in DOMAIN events :
       a < b => StageRank(events[a].stage) <= StageRank(events[b].stage)

C3_Witness ==
    /\ pc = "returned"
    /\ LastStage = "complete"
    /\ Len(files) >= 2

\* C4: a run that returns an analysis has emitted an event of each of the
\* five stages, and its last event is of stage complete.
C4_AllStagesEmitted ==
    pc = "returned" => (StagesEmitted = Range(Stages) /\ LastStage = "complete")

\* C5: when the clone fails the run throws to the caller, returns no analysis
\* and has emitted no event of a stage other than cloning.
C5_CloneFailureAborts ==
    rejected = "clone" =>
       /\ pc = "thrown"
       /\ result = NoResult
       /\ StagesEmitted \subseteq {"cloning"}

C5_Witness == rejected = "clone" /\ pc = "thrown" /\ Len(events) = 2

\* C6: when a run has finished, by returning or by throwing, its checkout
\* directory no longer exists.
C6_CheckoutRemovedOnExit ==
    pc \in {"returned", "thrown"} => "analysisDir" \notin dirs

\* C7: a failure to obtain the commit history never aborts the run, and the
\* analysis then returned has an empty hotspot list.
C7_HistoryFailureTolerated ==
    rejected = "history" =>
       /\ pc # "thrown"
       /\ pc = "returned" => result.insights.hotspots = <<>>

\* C8: once cancellation has been requested the run begins no further stage,
\* and when it has stopped its checkout directory is gone.
C8_CancelStopsBeforeNextStage ==
    [][cancelRequested =>
          /\ LastStage' = LastStage
          /\ pc' \in {"returned", "thrown"} => "analysisDir" \notin dirs']_vars

(***************************************************************************)
(* Properties of grouping and relationship building.                       *)
(***************************************************************************)
NoSelfEdge(relationships) ==
    \A k \in DOMAIN relationships : relationships[k].from # relationships[k].to

\* C9: no Relationship emitted, by buildRelationships or by
\* analyzeDependencyGraph, has from equal to to.
C9_NoSelfEdges ==
    /\ gEngine # NotRun => NoSelfEdge(gEngine.relationships)
    /\ gModule # NotRun => NoSelfEdge(gModule.relationships)

\* some import or superclass of some file resolves to the file's own Component
ResolvesToOwnComponent ==
    \E k \in DOMAIN gFiles :
       \/ \E j \in DOMAIN gFiles[k].imports :
             /\ IsInternalImport(gFiles, gFiles[k].imports[j].module)
             /\ ResolveComponent(gFiles, gEngine.components,
                                 gFiles[k].imports[j].module)
                   = FileToComponent(gEngine.components, gFiles[k].path)
       \/ \E j \in DOMAIN gFiles[k].classes :
             ResolveComponent(gFiles, gEngine.components, gFiles[k].classes[j].extends)
                = FileToComponent(gEngine.components, gFiles[k].path)

C9_Witness ==
    /\ gEngine # NotRun
    /\ gModule # NotRun
    /\ gEngine.relationships # <<>>
    /\ gModule.relationships # <<>>
    /\ ResolvesToOwnComponent

\* the file lists of the Components partition the paths of the FileRecords
Covers(components, fs) ==
    LET paths == { fs[k].path : k \in DOMAIN fs }
    IN  /\ \A p \in paths :
              Cardinality({ c \in DOMAIN components :
                              p \in Range(components[c].files) }) = 1
        /\ UNION { Range(components[c].files) : c \in DOMAIN components } = paths
        /\ SumSeq([c \in DOMAIN components |-> Len(components[c].files)])
              = Cardinality(paths)

\* C10: after grouping, by identifyComponents or by analyzeDependencyGraph,
\* every FileRecord path is in the file list of exactly one Component and the
\* file lists together hold exactly the FileRecord paths, none twice.
C10_ComponentsCoverFiles ==
    /\ gEngine # NotRun => Covers(gEngine.components, gFiles)
    /\ gModule # NotRun => Covers(gModule.components, gFiles)

C10_Witness ==
    /\ gEngine # NotRun
    /\ gModule # NotRun
    /\ Len(gEngine.components) >= 2
    /\ \E c \in DOMAIN gEngine.components : Len(gEngine.components[c].files) >= 2
    /\ Len(gModule.components) >= 2

\* C11: no two Components of architecture.components have the same name,
\* also when files of the repository root (Component root) stand next to
\* files in directories.
C11_ComponentNamesUnique ==
    gEngine # NotRun =>
       \A a, b \in DOMAIN gEngine.components :
          a # b => gEngine.components[a].name # gEngine.components[b].name

(***************************************************************************)
(* Properties of the complexity of functions and files.                    *)
(***************************************************************************)
\* C12: every function complexity and every file cyclomatic complexity that
\* extraction produces is at least 1, also for a file that declares no
\* function and no class.
C12_ComplexityAtLeastOne ==
    \A k \in DOMAIN fileAnalyses :
       /\ fileAnalyses[k].complexity.cyclomatic >= 1
       /\ \A j \in DOMAIN fileAnalyses[k].functions :
             fileAnalyses[k].functions[j].complexity >= 1

RECURSIVE WithoutNested(_)
\* the node with every function declaration, function expression, arrow
\* function and class in it emptied
WithoutNested(n) ==
    IF n.type \in NestedTypes THEN Node(n.type, "", <<>>)
    ELSE Node(n.type, n.operator,
              [k \in DOMAIN n.props |->
                  Prop(n.props[k].key, n.props[k].array,
                       [j \in DOMAIN n.props[k].nodes |->
                           WithoutNested(n.props[k].nodes[j])])])

\* the function or method node with the callables nested in its body emptied
WithoutNestedCallables(node) ==
    Node(node.type, node.operator,
         [k \in DOMAIN node.props |->
             Prop(node.props[k].key, node.props[k].array,
                  [j \in DOMAIN node.props[k].nodes |->
                      WithoutNested(node.props[k].nodes[j])])])

\* C13: the complexity of a function or method does not count what lies in a
\* function declaration, function expression, arrow function or class nested
\* in its body: it is the complexity of the function with those emptied.
C13_NestedCallablesNotCounted ==
    cRecord # NotRun =>
       cRecord.complexity
          = CalculateFunctionComplexity(WithoutNestedCallables(cNode))

RECURSIVE DecisionPoints(_)
\* the if, loop, switch-case, catch, ternary and && / || nodes in n
DecisionPoints(n) ==
    (IF \/ n.type \in DecisionTypes
        \/ n.type = "LogicalExpression" /\ n.operator \in {"&&", "||"}
     THEN 1 ELSE 0)
    + SumSeq([k \in DOMAIN n.props |->
                 SumSeq([j \in DOMAIN n.props[k].nodes |->
                            DecisionPoints(n.props[k].nodes[j])])])

\* C14: the complexity of a function or method that has no nested callable
\* is 1 plus the number of decision points in its body, each counted once,
\* also when one lies inside another.
C14_CountsEveryDecisionPoint ==
    (cRecord # NotRun /\ WithoutNestedCallables(cNode) = cNode) =>
       cRecord.complexity = DecisionPoints(cNode) + 1

\* q is a number between 0 and 100
InZeroToHundred(q) == q.den > 0 /\ 0 <= q.num /\ q.num <= 100 * q.den

\* C15: the maintainability of every FileRecord and the maintainability
\* index of the repository lie between 0 and 100, and the index is 100 when
\* the total line count is 0.
C15_MaintainabilityInRange ==
    /\ \A k \in DOMAIN fileAnalyses :
          InZeroToHundred(fileAnalyses[k].complexity.maintainability)
    /\ (pc = "returned" /\ result # NoResult) =>
          /\ InZeroToHundred(result.metrics.maintainabilityIndex)
          /\ result.metrics.totalLines = 0 =>
                FracIs(result.metrics.maintainabilityIndex, 100)

(***************************************************************************)
(* Properties of the metrics and the insights.                             *)
(***************************************************************************)
\* C16: technicalDebt is the sum, over the FileRecords whose cyclomatic
\* complexity is strictly greater than the threshold, of (complexity -
\* threshold) x 0.5; the other files contribute 0.
C16_TechnicalDebt ==
    sMetrics # NotRun =>
       LET above ==
               AtPositions(sFiles,
                   { k \in DOMAIN sFiles :
                       sFiles[k].complexity.cyclomatic > ComplexityThreshold })
           excess ==
               SumSeq([k \in DOMAIN above |->
                          above[k].complexity.cyclomatic - ComplexityThreshold])
       IN  /\ sMetrics.technicalDebt.den > 0
           /\ 2 * sMetrics.technicalDebt.num = excess * sMetrics.technicalDebt.den

\* a file of complexity 15 and a file of complexity 1 give a debt of 2.5
C16_Witness ==
    /\ sMetrics # NotRun
    /\ Len(sFiles) = 2
    /\ { sFiles[k].complexity.cyclomatic : k \in DOMAIN sFiles } = {1, 15}
    /\ 2 * sMetrics.technicalDebt.num = 5 * sMetrics.technicalDebt.den

\* C17: the architectural style is 'Full-Stack Application' when page, api
\* and service are all among the Component types, otherwise 'Frontend
\* Application' when page is and api is not, otherwise 'Backend API' when api
\* is and page is not, and 'Component Library' in every other case.
C17_ArchitecturalStyle ==
    sInsights # NotRun =>
       LET types == Range(sTypes)
           style == sInsights.architecturalStyle
       IN  /\ {"page", "api", "service"} \subseteq types
                 <=> style = "Full-Stack Application"
           /\ ("page" \in types /\ "api" \notin types)
                 <=> style = "Frontend Application"
           /\ ("api" \in types /\ "page" \notin types)
                 <=> style = "Backend API"
           /\ (/\ ("page" \in types <=> "api" \in types)
               /\ ~({"page", "api", "service"} \subseteq types))
                 <=> style = "Component Library"

\* page and api without service: neither full-stack, front end nor back end
C17_Witness ==
    /\ sInsights # NotRun
    /\ {"page", "api"} \subseteq Range(sTypes)
    /\ "service" \notin Range(sTypes)
    /\ sInsights.architecturalStyle = "Component Library"

\* C18: the quality label is 'Excellent' iff the index is above 80, 'Good'
\* iff above 60 and at most 80, 'Fair' iff above 40 and at most 60, 'Needs
\* Improvement' iff at most 40.
C18_QualityLabel ==
    sInsights # NotRun =>
       LET n == sIndex.num
           d == sIndex.den
           label == sInsights.codeQuality
       IN  /\ d > 0
           /\ label = "Excellent" <=> n > 80 * d
           /\ label = "Good" <=> (n > 60 * d /\ n <= 80 * d)
           /\ label = "Fair" <=> (n > 40 * d /\ n <= 60 * d)
           /\ label = "Needs Improvement" <=> n <= 40 * d

\* an index of exactly 80 is labelled Good
C18_Witness ==
    /\ sInsights # NotRun
    /\ sIndex.num = 80 * sIndex.den
    /\ sInsights.codeQuality = "Good"

(***************************************************************************)
(* Properties of the extraction.                                           *)
(***************************************************************************)
\* C19: two analyses of the same repo-relative path and file content give
\* FileRecords equal in every field, whatever the checkout directory of each,
\* and the path of the FileRecord is the repo-relative path.
C19_ExtractionDeterministic ==
    (xRecords[1] # NotRun /\ xRecords[2] # NotRun) =>
       /\ xRecords[1] = xRecords[2]
       /\ \A run \in DOMAIN xRecords :
             "path" \in DOMAIN xRecords[run] => xRecords[run].path = xInput.path

C19_Witness ==
    /\ xRoots[1] # xRoots[2]
    /\ xInput.content.kind = "source"
    /\ xInput.commits > 0
    /\ xRecords[1] # NotRun
    /\ xRecords[2] # NotRun
    /\ xRecords[1].commitCount = xInput.commits

\* C20: when the scan found files and every one of them failed, the metrics
\* and the insights computed on the empty FileRecord set have an average
\* complexity of 0: averageComplexity is 0 and the complexity distribution is
\* the one of an average below 5.
C20_EmptySetAverageIsZero ==
    (pc = "returned" /\ files # <<>> /\ result.files = <<>>) =>
       /\ FracIs(result.metrics.averageComplexity, 0)
       /\ result.insights.complexityDistribution = "Low complexity, easy to maintain"

\* list is a top-5 list of the files whose metric is above least: path and
\* metric of files above least, at most 5, in non-increasing order, and no
\* file above least that is left out has a larger metric than one listed
IsTopFive(list, metricOf, least) ==
    LET MetricIn(fs, path) == { metricOf[k] : k \in { j \in DOMAIN fs : fs[j].path = path } }
    IN  /\ Len(list) <= 5
        /\ \A e \in DOMAIN list :
              /\ list[e].metric > least
              /\ MetricIn(sFiles, list[e].path) = {list[e].metric}
        /\ \A a, b \in DOMAIN list : a < b => list[a].metric >= list[b].metric
        /\ \A k \in DOMAIN sFiles :
              (metricOf[k] > least
                 /\ \A e \in DOMAIN list : list[e].path # sFiles[k].path)
              => /\ Len(list) = 5
                 /\ \A e \in DOMAIN list : list[e].metric >= metricOf[k]

\* C21: hotspots lists only files with at least 2 commits and
\* highComplexityFiles only files above the complexity threshold; each list has
\* at most 5 entries in non-increasing order of its metric, and no qualifying
\* file left out has a strictly larger metric than a listed one.
C21_TopFiveLists ==
    sInsights # NotRun =>
       /\ IsTopFive([e \in DOMAIN sInsights.hotspots |->
                        [path |-> sInsights.hotspots[e].path,
                         metric |-> sInsights.hotspots[e].commitCount]],
                    [k \in DOMAIN sFiles |-> sFiles[k].commitCount], 1)
       /\ IsTopFive([e \in DOMAIN sInsights.highComplexityFiles |->
                        [path |-> sInsights.highComplexityFiles[e].path,
                         metric |-> sInsights.highComplexityFiles[e].complexity]],
                    Cyclomatics(sFiles), ComplexityThreshold)

\* six files qualify for both lists, with different metrics among them
C21_Witness ==
    /\ sInsights # NotRun
    /\ Len(sFiles) = 6
    /\ \A k \in DOMAIN sFiles : sFiles[k].commitCount >= 2
    /\ { sFiles[k].commitCount : k \in DOMAIN sFiles } = {2, 3}
    /\ Len(sInsights.hotspots) = 5
    /\ Len(sInsights.highComplexityFiles) = 5

(***************************************************************************)
(* Properties of the import edges.                                         *)
(***************************************************************************)
\* the imports, as <<file, import>> positions, whose specifier matches the
\* path of a FileRecord that a Component other than the importer's owns
ImportsOfOtherComponents ==
    { site \in UNION { { <<k, j>> : j \in DOMAIN gFiles[k].imports } : k \in DOMAIN gFiles } :
        LET to == ResolveComponent(gFiles, gEngine.components,
                                   gFiles[site[1]].imports[site[2]].module)
        IN  /\ to # Undefined
            /\ to # FileToComponent(gEngine.components, gFiles[site[1]].path) }

\* C22: buildRelationships emits one imports edge for each import whose
\* specifier resolves to a FileRecord of another Component and no other
\* imports edge, duplicates kept; both ends of every edge are names of
\* Components of the result.
C22_ImportEdges ==
    gEngine # NotRun =>
       LET imports ==
               { e \in DOMAIN gEngine.relationships :
                   gEngine.relationships[e].type = "imports" }
           names == { gEngine.components[c].name : c \in DOMAIN gEngine.components }
       IN  /\ Cardinality(imports) = Cardinality(ImportsOfOtherComponents)
           /\ \A e \in DOMAIN gEngine.relationships :
                 /\ gEngine.relationships[e].from \in names
                 /\ gEngine.relationships[e].to \in names

(***************************************************************************)
(* Properties of the ComplexityScore of a FileRecord.                      *)
(***************************************************************************)
\* C28: in the ComplexityScore of every FileRecord of the run the cognitive
\* value equals the cyclomatic value, files with classes and methods
\* included.
C28_CognitiveEqualsCyclomatic ==
    \A k \in DOMAIN fileAnalyses :
        fileAnalyses[k].complexity.cognitive = fileAnalyses[k].complexity.cyclomatic

(***************************************************************************)
(* Properties of the percent of the progress events.                       *)
(***************************************************************************)
\* C30: the percent of every progress event of a run lies within 0..100,
\* no event has a smaller percent than the event before it, and only an
\* event of stage complete has percent 100.
C30_PercentMonotone ==
    /\ \A k \in DOMAIN events :
          /\ InZeroToHundred(events[k].progress)
          /\ FracIs(events[k].progress, 100) => events[k].stage = "complete"
    /\ \A k \in DOMAIN events :
          k > 1 =>
             events[k - 1].progress.num * events[k].progress.den
                <= events[k].progress.num * events[k - 1].progress.den

\* a run over two files has returned: its events went through the per-file
\* percents 60 and 70 and ended with the complete event
C30_Witness ==
    /\ pc = "returned"
    /\ Len(files) = 2
    /\ \E k \in DOMAIN events :
          /\ events[k].stage = "analyzing"
          /\ FracIs(events[k].progress, 70)
    /\ events[Len(events)] = Progress("complete", Frac(100, 1))

(***************************************************************************)
(* Properties of the order of the stages of a run.                         *)
(***************************************************************************)
\* C24: a file is parsed only once the scan has returned the whole list of
\* files, which no longer changes; grouping starts only when every scanned
\* file has been analyzed or skipped; metrics and insights are computed only
\* from the finished grouping of the analyzed files, which the result holds.
C24_StagesInOrder ==
    [][ /\ (i' # i \/ fileAnalyses' # fileAnalyses) =>
              /\ pc \in {"scan", "files"}
              /\ pc = "files" => files' = files /\ files \in ScanResults
        /\ (pc = "generate" /\ pc' # pc) =>
              /\ i = Len(files)
              /\ Len(events) = 5 + Len(files)
              /\ files' = files /\ fileAnalyses' = fileAnalyses
              /\ result' = result
        /\ (pc = "synthesize" /\ pc' # pc) =>
              /\ architecture' = architecture
              /\ architecture = BuildArchitecture(fileAnalyses)
              /\ result'.architecture = architecture
              /\ result'.files = fileAnalyses ]_vars

\* a run over two files, one analyzed and one skipped, has returned the
\* grouping of the analyzed file
C24_Witness ==
    /\ pc = "returned"
    /\ Len(files) = 2
    /\ Len(fileAnalyses) = 1
    /\ Len(result.architecture.components) = 1

(***************************************************************************)
(* Properties of the FileRecords after they were added to the list.        *)
(***************************************************************************)
\* C23: a FileRecord that is in the list of the run keeps every field and
\* its position: the per-file loop only appends, and grouping, relationship
\* building, metrics and insight synthesis (the sorting for the top-5 lists
\* included) leave the list as it was, which is the list the result holds.
C23_FileRecordsImmutable ==
    [][ /\ pc = "files" =>
              /\ Len(fileAnalyses') >= Len(fileAnalyses)
              /\ SubSeq(fileAnalyses', 1, Len(fileAnalyses)) = fileAnalyses
        /\ pc \in {"generate", "synthesize", "returned"} =>
              fileAnalyses' = fileAnalyses
        /\ (pc = "synthesize" /\ pc' = "returned") =>
              result'.files = fileAnalyses ]_vars

\* a run has returned two FileRecords, the second of higher cyclomatic
\* complexity than the first, and a top-5 list that is not empty
C23_Witness ==
    /\ pc = "returned"
    /\ Len(fileAnalyses) = 2
    /\ fileAnalyses[1].complexity.cyclomatic < fileAnalyses[2].complexity.cyclomatic
    /\ result.files = fileAnalyses
    /\ Len(result.architecture.components) > 0
    /\ \/ Len(result.insights.highComplexityFiles) > 0
       \/ Len(result.insights.hotspots) > 0

(***************************************************************************)
(* Properties of the type of a Component.                                  *)
(***************************************************************************)
\* some path of the Component contains one of the markers
PathsContain(component, markers) ==
    \E k \in DOMAIN component.files :
        \E m \in markers : Includes(component.files[k], m)

ApiMarkers == {<<"a", "p", "i">>, <<"r", "o", "u", "t", "e">>}

PageMarkers == {<<"p", "a", "g", "e">>, <<"c", "o", "m", "p", "o", "n", "e", "n", "t">>}

ServiceMarkers == {<<"s", "e", "r", "v", "i", "c", "e">>, <<"u", "t", "i", "l">>}

\* C26: the type of every Component is the first of api, page, service whose
\* markers occur in some path of the Component, and component when none
\* occurs; a Component matching several rules has the earliest type.
C26_FirstMatchingType ==
    gEngine # NotRun =>
       \A k \in DOMAIN gEngine.components :
          LET c == gEngine.components[k]
          IN  /\ c.type \in {"api", "page", "service", "component"}
              /\ c.type = "api" <=> PathsContain(c, ApiMarkers)
              /\ c.type = "page" <=>
                    /\ ~PathsContain(c, ApiMarkers)
                    /\ PathsContain(c, PageMarkers)
              /\ c.type = "service" <=>
                    /\ ~PathsContain(c, ApiMarkers)
                    /\ ~PathsContain(c, PageMarkers)
                    /\ PathsContain(c, ServiceMarkers)

\* the grouping holds a Component of type api, made so by one of its two
\* files while the other contains a service marker, and one of type page
\* whose paths also contain a service marker
C26_Witness ==
    /\ gEngine # NotRun
    /\ \E k \in DOMAIN gEngine.components :
          /\ gEngine.components[k].type = "api"
          /\ Len(gEngine.components[k].files) = 2
          /\ PathsContain(gEngine.components[k], ServiceMarkers)
    /\ \E k \in DOMAIN gEngine.components :
          /\ gEngine.components[k].type = "page"
          /\ PathsContain(gEngine.components[k], ServiceMarkers)

(***************************************************************************)
(* Properties of the function visitors.                                    *)
(***************************************************************************)
\* the visited function is the initializer of a variable declarator whose id
\* is a simple identifier
BoundToIdentifier ==
    /\ vSite.parent.type = "VariableDeclarator"
    /\ vSite.parent.id # <<>>
    /\ vSite.parent.id[1].type = "Identifier"

\* the visitor recorded the function under the name
RecordedAs(name) ==
    /\ Len(vFunctions.functions) = 1
    /\ vFunctions.functions[1].name = name

\* C25: a function expression without a name of its own is recorded exactly
\* when it is bound to a simple identifier, under that identifier; a function
\* expression in another position is not recorded; an arrow function follows
\* the same rule; a function declaration with a name is recorded.
C25_FunctionRecording ==
    vFunctions # NotRun =>
       /\ (vSite.node.type = "FunctionExpression" /\ vSite.id = <<>>) =>
             IF BoundToIdentifier THEN RecordedAs(vSite.parent.id[1].name)
             ELSE vFunctions.functions = <<>>
       /\ (vSite.node.type = "FunctionExpression" /\ ~BoundToIdentifier) =>
             vFunctions.functions = <<>>
       /\ vSite.node.type = "ArrowFunctionExpression" =>
             IF BoundToIdentifier THEN RecordedAs(vSite.parent.id[1].name)
             ELSE vFunctions.functions = <<>>
       /\ (vSite.node.type = "FunctionDeclaration" /\ vSite.id # <<>>) =>
             RecordedAs(vSite.id[1].name)

(***************************************************************************)
(* Properties of two overlapping runs.                                     *)
(***************************************************************************)
\* C29: when the run of one engine fails, the checkout of the run of the
\* other engine, if it exists, still exists afterwards, so that the other
\* run can go on to scan it.
C29_FailureKeepsOtherCheckout ==
    [][ \A e \in Engines :
           (kRuns[e].pc # "thrown" /\ kRuns'[e].pc = "thrown") =>
              \A o \in Engines \ {e} :
                 Checkout(o) \in kDirs => Checkout(o) \in kDirs' ]_vars

(***************************************************************************)
(* Properties of scanFiles.                                                *)
(***************************************************************************)
\* the name or the full path of the directory matches an ignore pattern
MatchesIgnorePattern(directory) ==
    \E pattern \in Config.ignorePatterns :
        LastSegment(directory) = pattern \/ Includes(directory, pattern)

\* the directories of the tree that lie on the way from the root to the path
AncestorsBelowRoot(p) ==
    { tTree[k].path : k \in { j \in DOMAIN tTree :
                                 /\ tTree[j].kind = "directory"
                                 /\ StartsWith(p, tTree[j].path \o <<"/">>) } }

HasSupportedExtension(p) ==
    LET name == ToLowerCase(LastSegment(p))
    IN  \E ext \in {<<".", "j", "s">>, <<".", "t", "s">>, <<".", "j", "s", "x">>,
                    <<".", "t", "s", "x">>, <<".", "c", "j", "s">>, <<".", "m", "j", "s">>} :
            EndsWith(name, ext) /\ Len(name) > Len(ext)

\* the files of the tree at position k that the scan has to return
Wanted(k) ==
    /\ tTree[k].kind = "file"
    /\ HasSupportedExtension(tTree[k].path)
    /\ tTree[k].size <= Config.maxFileSize
    /\ \A d \in AncestorsBelowRoot(tTree[k].path) : ~MatchesIgnorePattern(d)

\* C27: scanFiles returns, once each, exactly the files with a supported
\* extension, a size of at most maxFileSize and no directory between the
\* root and them whose name or full path matches an ignore pattern; it reads
\* the root and the directories that neither match a pattern nor lie under
\* one that does, and no other directory.
C27_ScanReturnsExactly ==
    tScan # NotRun =>
       /\ Range(tScan.files) = { tTree[k].path : k \in { j \in DOMAIN tTree : Wanted(j) } }
       /\ Len(tScan.files) = Cardinality(Range(tScan.files))
       /\ Range(tScan.read) =
             {RepoRoot}
             \cup { tTree[k].path :
                      k \in { j \in DOMAIN tTree :
                                /\ tTree[j].kind = "directory"
                                /\ ~MatchesIgnorePattern(tTree[j].path)
                                /\ \A d \in AncestorsBelowRoot(tTree[j].path) :
                                      ~MatchesIgnorePattern(d) } }

\* the scan of a tree that holds a directory named by a pattern, a directory
\* whose path contains a pattern, a supported file in each of them and a
\* supported file above maxFileSize has returned a file
C27_Witness ==
    /\ tScan # NotRun
    /\ tScan.files # <<>>
    /\ \E k \in DOMAIN tTree :
          /\ tTree[k].kind = "file"
          /\ HasSupportedExtension(tTree[k].path)
          /\ tTree[k].size > Config.maxFileSize
          /\ \A d \in AncestorsBelowRoot(tTree[k].path) : ~MatchesIgnorePattern(d)
    /\ \E k \in DOMAIN tTree :
          /\ tTree[k].kind = "file"
          /\ HasSupportedExtension(tTree[k].path)
          /\ \E d \in AncestorsBelowRoot(tTree[k].path) :
                LastSegment(d) \in Config.ignorePatterns
    /\ \E k \in DOMAIN tTree :
          /\ tTree[k].kind = "file"
          /\ HasSupportedExtension(tTree[k].path)
          /\ \E d \in AncestorsBelowRoot(tTree[k].path) :
                /\ LastSegment(d) \notin Config.ignorePatterns
                /\ MatchesIgnorePattern(d)

====
